---------------------------- MODULE Spec2Model ----------------------------
(***************************************************************************)
(* Model of backend/server.js: the PIX key registry (pixKeys), the order   *)
(* ledger (orders) and the Express handlers that read and write them.      *)
(* Every handler is one synchronous callback, hence one action.            *)
(*                                                                         *)
(* Conventions.  A JavaScript value that may be undefined is modelled as a *)
(* set: {} when the property is absent, {v} when it holds v.  A string is  *)
(* a TLA+ string; the strings edited character by character (cpf, phone)   *)
(* are sequences of one-character strings.  Identifiers made by uuidv4()   *)
(* are <<"uuid", n>> with n fresh; an order code is <<"GM", t, r>>, the    *)
(* prefix, the clock value that is base-36 encoded, and the random suffix. *)
(***************************************************************************)
EXTENDS Integers, Sequences, FiniteSets, TLC

VARIABLES
    pixKeys,    \* server.js:540  let pixKeys = [...]
    orders,     \* server.js:551  let orders = []
    now,        \* the wall clock read by Date.now() and new Date()
    uuidCount,  \* how many identifiers uuidv4() has handed out
    analytics,  \* server.js:916  let analytics = {...}
    req,        \* the request being answered by the last step
    res         \* the response sent for it

vars == <<pixKeys, orders, analytics, now, uuidCount, req, res>>

-----------------------------------------------------------------------------
(* Bounds of the model. *)

\* the clock takes the values 0..MaxClock (milliseconds)
MaxClock == 1
\* uuidv4() is called at most MaxUuid times
MaxUuid == 5
\* beside the key registry, POST /api/payment is explored until the ledger
\* holds MaxOrders orders; alone, until it holds MaxLedger
MaxOrders == 1
MaxLedger == 2
\* beside the order handlers, a key is added only while uuidv4() has handed
\* out fewer than MaxAdds identifiers
MaxAdds == 1
\* a tracking request is explored while the analytics object holds fewer than
\* MaxTracked tracked things: page views, conversion records, counted clicks,
\* ticket selections and counted conversions
MaxTracked == 3
\* the checkout funnel alone is explored until it holds MaxFunnel records
MaxFunnel == 12
\* the traffic histogram is explored over MaxTrafficHours hours of clock and
\* MaxViews page views
MaxTrafficHours == 25
MaxViews == 2

-----------------------------------------------------------------------------
(* Program constants. *)

\* server.js:796  if (pixKeys.length >= 5)
MAX_KEYS == 5

\* server.js:660  Date.now() + 30 * 60 * 1000
EXPIRES_IN_MS == 30 * 60 * 1000

\* server.js:543  key-string of the seed key
SEED_KEY == "a9d156cf-2e35-4728-b5de-5bd3191f0485"

\* the error strings of the responses
ERR_CUSTOMER == "Dados do cliente incompletos"
ERR_CART == "Nenhum item no carrinho"
ERR_NO_KEY == "Nenhuma chave PIX disponível"
ERR_ORDER_NOT_FOUND == "Pedido não encontrado"
ERR_FIELDS == "Campos obrigatórios: key, type, name"
ERR_LIMIT == "Limite de 5 chaves atingido"
ERR_DUPLICATE == "Chave já cadastrada"
ERR_KEY_NOT_FOUND == "Chave não encontrada"
ERR_INVALID_KEY == "Chave de acesso inválida"
ERR_UNAUTHORIZED == "Não autorizado"

\* server.js:1063  process.env.ANALYTICS_SECRET || 'guiche2024@analytics',
\* for a process started without the environment variable
ANALYTICS_SECRET == "guiche2024@analytics"

\* server.js:929  the keys of the clicks object of a new event
CLICK_ACTIONS == {"ingressos", "info", "local", "pdv", "checkout"}

\* server.js:1108  .slice(-10)
RECENT_LIMIT == 10

\* server.js:1116  i * 60 * 60 * 1000
HOUR_MS == 60 * 60 * 1000

\* server.js:1113  24 * 60 * 60 * 1000
DAY_MS == 24 * 60 * 60 * 1000

\* server.js:1115  Array.from({ length: 24 }, ...)
TRAFFIC_HOURS == 24

-----------------------------------------------------------------------------
(* JavaScript helpers. *)

\* !x for an optional string: undefined and "" are falsy
Falsy(x) == x = {} \/ x = {""}

\* !x for an optional character sequence: undefined and the empty string
FalsySeq(x) == x = {} \/ x = {<<>>}

\* the value of a present optional
Val(x) == CHOOSE v \in x : TRUE

Digits == {"0", "1", "2", "3", "4", "5", "6", "7", "8", "9"}

\* s.replace(/\D/g, '')
StripNonDigits(s) == SelectSeq(s, LAMBDA c : c \in Digits)

\* Array.prototype.findIndex and find, which scan from the front: the first
\* of the indexes (1-based) whose element satisfies the callback, 0 for -1
FindIndex(matching) ==
    IF matching = {} THEN 0
    ELSE CHOOSE i \in matching : \A j \in matching : i <= j

\* Array.prototype.splice(i, 1)
Splice1(arr, i) == [j \in 1..(Len(arr) - 1) |-> IF j < i THEN arr[j] ELSE arr[j + 1]]


\* Number.prototype.toString(36) followed by toUpperCase()
BASE36_DIGITS ==
    <<"0", "1", "2", "3", "4", "5", "6", "7", "8", "9", "A", "B", "C", "D", "E",
      "F", "G", "H", "I", "J", "K", "L", "M", "N", "O", "P", "Q", "R", "S", "T",
      "U", "V", "W", "X", "Y", "Z">>

RECURSIVE Base36Upper(_)
Base36Upper(n) ==
    IF n < 36 THEN BASE36_DIGITS[n + 1]
    ELSE Base36Upper(n \div 36) \o BASE36_DIGITS[(n % 36) + 1]

\* Date.prototype.toISOString() of the time t (milliseconds since the epoch):
\* the fields of YYYY-MM-DDTHH:mm:ss.sssZ, the date as a count of days
ToISOString(t) ==
    [day |-> t \div DAY_MS,
     hours |-> (t % DAY_MS) \div HOUR_MS,
     minutes |-> (t % HOUR_MS) \div (60 * 1000),
     seconds |-> (t % (60 * 1000)) \div 1000,
     milliseconds |-> t % 1000]

\* new Date(iso).getTime() for a string toISOString() wrote
ParseISO(iso) ==
    (((iso.day * 24 + iso.hours) * 60 + iso.minutes) * 60 + iso.seconds) * 1000
    + iso.milliseconds

\* Date.prototype.getHours() of the time t, for a process whose time zone is
\* UTC: the hour of the day, 0..23
getHours(t) == (t \div HOUR_MS) % 24

\* uuidv4(): the n-th identifier handed out; no two calls return the same one
Uuid(n) == "uuid-" \o ToString(n)

-----------------------------------------------------------------------------
(* Inputs of the requests. *)

\* the key-string a client registers with its n-th successful POST: key-strings
\* are opaque, so one fresh string per registration stands for all of them
FreshKey(n) == "pix-" \o ToString(n)

\* path parameter :id of PUT and DELETE /api/admin/pix-keys/:id: every
\* identifier in the registry, and one that is not
KeyIdInputs == {pixKeys[i].id : i \in 1..Len(pixKeys)} \cup {"no-such-key"}

\* the same, for the registry explored to its capacity: the seed key, the
\* first key uuidv4() names, and an identifier that is not registered
FewKeyIdInputs == {"1", Uuid(1), "no-such-key"}

\* the bodies of PUT the order handlers are explored against
FewUpdateBodies ==
    {[key |-> {}, type |-> {}, name |-> {}, active |-> {FALSE}],
     [key |-> {}, type |-> {}, name |-> {}, active |-> {TRUE}],
     [key |-> {"pix-novo"}, type |-> {"cnpj"}, name |-> {"Nova"}, active |-> {}]}

\* bodies of POST /api/admin/pix-keys
AddBodies ==
    [key : {{}, {SEED_KEY}, {FreshKey(uuidCount + 1)}},
     type : {{}, {"email"}},
     name : {{}, {"Loja"}}]

\* bodies of PUT /api/admin/pix-keys/:id
UpdateBodies ==
    {[key |-> {}, type |-> {}, name |-> {}, active |-> {}],
     [key |-> {}, type |-> {}, name |-> {}, active |-> {FALSE}],
     [key |-> {}, type |-> {}, name |-> {}, active |-> {TRUE}],
     [key |-> {SEED_KEY}, type |-> {}, name |-> {}, active |-> {}],
     [key |-> {"pix-novo"}, type |-> {"cnpj"}, name |-> {"Nova"}, active |-> {}]}

CPF_INPUT == <<"1", "2", ".", "3", "-", "4">>

\* the customer of a POST /api/payment body: {} when the body has none;
\* one complete customer, and one customer for each way of being incomplete
VALID_CUSTOMER ==
    [name |-> {"Ana"}, email |-> {"ana@x.com"}, cpf |-> {CPF_INPUT}, phone |-> {}]

CustomerInputs ==
    {{}, {VALID_CUSTOMER},
     {[VALID_CUSTOMER EXCEPT !.name = {}]},
     {[VALID_CUSTOMER EXCEPT !.name = {""}]},
     {[VALID_CUSTOMER EXCEPT !.email = {""}]},
     {[VALID_CUSTOMER EXCEPT !.cpf = {}]},
     {[VALID_CUSTOMER EXCEPT !.cpf = {<<>>}]}}

ITEM_INPUT == [title |-> "Pista", unitPrice |-> {50}, unit_price |-> {}, quantity |-> 2]

\* the items of a POST /api/payment body: {} when the body has none
ItemsInputs == {{}, {<<>>}, {<<ITEM_INPUT>>}}

PaymentBodies == [customer : CustomerInputs, items : ItemsInputs, total : {100}]

\* Math.random().toString(36).substring(2, 6).toUpperCase()
RandomSuffixes == {"0A1B", "Z9Y8"}

\* path parameter :orderId of confirm and get: every identifier and code in
\* the ledger, and one value that is neither
OrderIdInputs ==
    {orders[i].id : i \in 1..Len(orders)} \cup
    {orders[i].code : i \in 1..Len(orders)} \cup {"no-such-order"}

-----------------------------------------------------------------------------
(* State after the module is loaded. *)

\* the analytics object literal, at load and after a reset; events is an
\* object used as a map from event identifier to statistics
EmptyAnalytics ==
    [pageViews |-> <<>>, events |-> [eventId \in {} |-> {}],
     sessions |-> <<>>, conversions |-> <<>>]

NoRequest == [op |-> "none"]
NoResponse == [status |-> 0]

Init ==
    /\ pixKeys = <<[id |-> "1", key |-> SEED_KEY, type |-> "cpf",
                    name |-> "Empresa LTDA", active |-> TRUE,
                    createdAt |-> 0, updatedAt |-> {}]>>
    /\ orders = <<>>
    /\ analytics = EmptyAnalytics
    /\ now = 0
    /\ uuidCount = 0
    /\ req = NoRequest
    /\ res = NoResponse

\* time passes between two requests
Tick ==
    /\ now < MaxClock
    /\ now' = now + 1
    /\ req' = NoRequest
    /\ res' = NoResponse
    /\ UNCHANGED <<pixKeys, orders, analytics, uuidCount>>


-----------------------------------------------------------------------------
(* Helper functions of server.js. *)

\* a selection that forgets the filter on the active flag
ActiveKeysUnfiltered(keys) == keys

\* pixKeys.filter(k => k.active)
ActiveKeys(keys) == SelectSeq(keys, LAMBDA k : k.active)

\* the values Math.floor(Math.random() * n) can take
RandomIndexes(n) == IF n = 0 THEN {0} ELSE 0..(n - 1)

\* a choice that takes the first key of the registry, active or not
getRandomPixKeyFirst(keys, randomIndex) ==
    IF Len(keys) = 0 THEN {} ELSE {keys[1]}

\* getRandomPixKey(), with randomIndex the index Math.random() gave:
\* {} is null
getRandomPixKey(keys, randomIndex) ==
    LET activeKeys == ActiveKeys(keys)
    IN  IF Len(activeKeys) = 0 THEN {} ELSE {activeKeys[randomIndex + 1]}

\* generateOrderCode(), with timestamp the value of Date.now() and random
\* the suffix Math.random() gave
generateOrderCode(timestamp, random) ==
    "GM" \o "-" \o Base36Upper(timestamp) \o "-" \o random

\* the pixKey object literal of an order: a copy of four fields of the key
PixKeySnapshot(pixKey) ==
    [id |-> pixKey.id, key |-> pixKey.key, type |-> pixKey.type, name |-> pixKey.name]

\* items.map(item => ({title, unitPrice: item.unitPrice || item.unit_price, quantity}))
NormalizeItem(item) ==
    [title |-> item.title,
     unitPrice |-> IF item.unitPrice # {} /\ item.unitPrice # {0}
                   THEN item.unitPrice ELSE item.unit_price,
     quantity |-> item.quantity]

\* the customer object literal of an order
NormalizeCustomer(customer) ==
    [name |-> Val(customer.name),
     email |-> Val(customer.email),
     cpf |-> StripNonDigits(Val(customer.cpf)),
     phone |-> IF customer.phone = {} THEN <<>>
               ELSE StripNonDigits(Val(customer.phone))]

\* !customer || !customer.name || !customer.email || !customer.cpf
CustomerIncomplete(customer) ==
    \/ customer = {}
    \/ Falsy(Val(customer).name)
    \/ Falsy(Val(customer).email)
    \/ FalsySeq(Val(customer).cpf)

\* a cart check that forgets items.length === 0
CartEmptyMissingOnly(items) == items = {}

\* !items || items.length === 0
CartEmpty(items) == items = {} \/ Len(Val(items)) = 0

\* a lookup that falls back on the oldest order when none matches
FindOrderOrOldest(list, orderId) ==
    LET matching == {i \in 1..Len(list) :
                        list[i].id = orderId \/ list[i].code = orderId}
    IN  IF matching = {} THEN (IF Len(list) = 0 THEN 0 ELSE 1)
        ELSE CHOOSE i \in matching : \A j \in matching : i <= j

\* orders.find(o => o.id === orderId || o.code === orderId): the index of the
\* order found, 0 when find returns undefined
FindOrder(list, orderId) ==
    FindIndex({i \in 1..Len(list) : list[i].id = orderId \/ list[i].code = orderId})


-----------------------------------------------------------------------------
(* Responses. *)

Failure(status, error) == [status |-> status, error |-> error]

\* the order object of the response of GET /api/order/:orderId
OrderView(order) ==
    [id |-> order.id, code |-> order.code, status |-> order.status,
     total |-> order.total,
     customer |-> [name |-> order.customer.name, email |-> order.customer.email],
     items |-> order.items, createdAt |-> order.createdAt,
     expiresAt |-> order.expiresAt, paidAt |-> order.paidAt]

\* the response of GET /api/order/:orderId on the ledger list
GetOrderResponse(list, orderId) ==
    LET idx == FindOrder(list, orderId)
    IN  IF idx = 0 THEN Failure(404, ERR_ORDER_NOT_FOUND)
        ELSE [status |-> 200, error |-> "", order |-> OrderView(list[idx])]

-----------------------------------------------------------------------------
(* Order handlers. *)

\* POST /api/payment.  randomIndex and random are what Math.random() gives to
\* getRandomPixKey and generateOrderCode.  The handler reads the clock three
\* times, in the order the object literal is evaluated: Date.now() for the
\* code (the value now), new Date() for createdAt (tCreated) and Date.now()
\* for expiresAt (tExpires); a later read is never earlier.
PostPayment(body, randomIndex, random, tCreated, tExpires) ==
    /\ req' = [op |-> "POST /api/payment", body |-> body]
    /\ UNCHANGED analytics
    /\ IF CustomerIncomplete(body.customer)
       THEN /\ res' = Failure(400, ERR_CUSTOMER)
            /\ UNCHANGED <<pixKeys, orders, now, uuidCount>>
       ELSE IF CartEmpty(body.items)
       THEN /\ res' = Failure(400, ERR_CART)
            /\ UNCHANGED <<pixKeys, orders, now, uuidCount>>
       ELSE LET pixKey == getRandomPixKey(pixKeys, randomIndex)
            IN  IF pixKey = {}
                THEN /\ res' = Failure(500, ERR_NO_KEY)
                     /\ UNCHANGED <<pixKeys, orders, now, uuidCount>>
                ELSE LET order ==
                             [id |-> Uuid(uuidCount + 1),
                              code |-> generateOrderCode(now, random),
                              customer |-> NormalizeCustomer(Val(body.customer)),
                              items |-> [i \in 1..Len(Val(body.items)) |->
                                            NormalizeItem(Val(body.items)[i])],
                              total |-> body.total,
                              pixKey |-> PixKeySnapshot(Val(pixKey)),
                              status |-> "pending",
                              createdAt |-> tCreated,
                              expiresAt |-> tExpires + EXPIRES_IN_MS,
                              paidAt |-> {}]
                     IN  /\ uuidCount < MaxUuid
                         /\ now <= tCreated /\ tCreated <= tExpires
                         /\ orders' = Append(orders, order)
                         /\ uuidCount' = uuidCount + 1
                         /\ now' = tExpires
                         /\ res' = [status |-> 200, error |-> "",
                                    order |-> [id |-> order.id, code |-> order.code,
                                               status |-> order.status,
                                               expiresAt |-> order.expiresAt],
                                    pix |-> [key |-> Val(pixKey).key,
                                             type |-> Val(pixKey).type,
                                             name |-> Val(pixKey).name],
                                    total |-> order.total]
                         /\ UNCHANGED pixKeys

\* a confirm that flips the status instead of setting it
MarkPaidToggle(order, t) ==
    [order EXCEPT !.status = IF @ = "paid" THEN "pending" ELSE "paid", !.paidAt = {t}]

\* a confirm that leaves an order that is already paid as it is
MarkPaidOnce(order, t) ==
    IF order.status = "paid" THEN order
    ELSE [order EXCEPT !.status = "paid", !.paidAt = {t}]

\* order.status = 'paid'; order.paidAt = new Date().toISOString()
MarkPaid(order, t) == [order EXCEPT !.status = "paid", !.paidAt = {t}]

\* POST /api/payment/:orderId/confirm.  found is a history field, not part of
\* the JSON sent: the order as orders.find returned it, before it is changed
ConfirmPayment(orderId) ==
    LET idx == FindOrder(orders, orderId)
    IN  /\ req' = [op |-> "POST /api/payment/:orderId/confirm", orderId |-> orderId]
        /\ IF idx = 0
           THEN /\ res' = Failure(404, ERR_ORDER_NOT_FOUND)
                /\ UNCHANGED orders
           ELSE LET order == MarkPaid(orders[idx], now)
                IN  /\ orders' = [orders EXCEPT ![idx] = order]
                    /\ res' = [status |-> 200, error |-> "",
                               order |-> [id |-> order.id, code |-> order.code,
                                          status |-> order.status,
                                          paidAt |-> order.paidAt],
                               found |-> orders[idx]]
        /\ UNCHANGED <<pixKeys, analytics, now, uuidCount>>

\* GET /api/order/:orderId
GetOrder(orderId) ==
    /\ req' = [op |-> "GET /api/order/:orderId", orderId |-> orderId]
    /\ res' = GetOrderResponse(orders, orderId)
    /\ UNCHANGED <<pixKeys, orders, analytics, now, uuidCount>>

-----------------------------------------------------------------------------
(* Admin handlers of the key registry. *)

\* a capacity check that is off by one
RegistryFullOffByOne(keys) == Len(keys) > MAX_KEYS

\* pixKeys.length >= 5
RegistryFull(keys) == Len(keys) >= MAX_KEYS

\* pixKeys.some(k => k.key === key)
KeyRegistered(keys, key) == \E i \in 1..Len(keys) : keys[i].key = key

\* POST /api/admin/pix-keys
PostPixKey(body) ==
    /\ req' = [op |-> "POST /api/admin/pix-keys", body |-> body]
    /\ IF Falsy(body.key) \/ Falsy(body.type) \/ Falsy(body.name)
       THEN /\ res' = Failure(400, ERR_FIELDS)
            /\ UNCHANGED <<pixKeys, uuidCount>>
       ELSE IF RegistryFull(pixKeys)
       THEN /\ res' = Failure(400, ERR_LIMIT)
            /\ UNCHANGED <<pixKeys, uuidCount>>
       ELSE IF KeyRegistered(pixKeys, Val(body.key))
       THEN /\ res' = Failure(400, ERR_DUPLICATE)
            /\ UNCHANGED <<pixKeys, uuidCount>>
       ELSE LET newKey == [id |-> Uuid(uuidCount + 1), key |-> Val(body.key),
                           type |-> Val(body.type), name |-> Val(body.name),
                           active |-> TRUE, createdAt |-> now, updatedAt |-> {}]
            IN  /\ uuidCount < MaxUuid
                /\ pixKeys' = Append(pixKeys, newKey)
                /\ uuidCount' = uuidCount + 1
                /\ res' = [status |-> 200, error |-> "", key |-> newKey]
    /\ UNCHANGED <<orders, analytics, now>>

\* a merge that switches the key on when the body has no active flag
MergeKeyActivating(old, body, t) ==
    [old EXCEPT
       !.key = IF body.key # {} THEN Val(body.key) ELSE @,
       !.type = IF body.type # {} THEN Val(body.type) ELSE @,
       !.name = IF body.name # {} THEN Val(body.name) ELSE @,
       !.active = IF body.active # {} THEN Val(body.active) ELSE TRUE,
       !.updatedAt = {t}]

\* the four conditional assignments of PUT and its stamp of updatedAt
MergeKey(old, body, t) ==
    [old EXCEPT
       !.key = IF body.key # {} THEN Val(body.key) ELSE @,
       !.type = IF body.type # {} THEN Val(body.type) ELSE @,
       !.name = IF body.name # {} THEN Val(body.name) ELSE @,
       !.active = IF body.active # {} THEN Val(body.active) ELSE @,
       !.updatedAt = {t}]

\* an order that holds the key object itself sees every later PUT
OrdersAfterPutAliased(list, old, new) ==
    [i \in 1..Len(list) |->
        IF list[i].pixKey.id = old.id
        THEN [list[i] EXCEPT !.pixKey = [id |-> new.id, key |-> new.key,
                                          type |-> new.type, name |-> new.name]]
        ELSE list[i]]

\* what PUT does to the ledger: an order holds a copy of its key's fields,
\* not the key object, so nothing
OrdersAfterPut(list, old, new) == list

\* PUT /api/admin/pix-keys/:id
PutPixKey(id, body) ==
    LET keyIndex == FindIndex({i \in 1..Len(pixKeys) : pixKeys[i].id = id})
        new == MergeKey(pixKeys[keyIndex], body, now)
    IN  /\ req' = [op |-> "PUT /api/admin/pix-keys/:id", id |-> id, body |-> body]
        /\ IF keyIndex = 0
           THEN /\ res' = Failure(404, ERR_KEY_NOT_FOUND)
                /\ UNCHANGED pixKeys
           ELSE /\ pixKeys' = [pixKeys EXCEPT ![keyIndex] = new]
                /\ res' = [status |-> 200, error |-> "", key |-> new]
        /\ orders' = IF keyIndex = 0 THEN orders
                     ELSE OrdersAfterPut(orders, pixKeys[keyIndex], new)
        /\ UNCHANGED <<analytics, now, uuidCount>>

\* DELETE /api/admin/pix-keys/:id
DeletePixKey(id) ==
    LET keyIndex == FindIndex({i \in 1..Len(pixKeys) : pixKeys[i].id = id})
    IN  /\ req' = [op |-> "DELETE /api/admin/pix-keys/:id", id |-> id]
        /\ IF keyIndex = 0
           THEN /\ res' = Failure(404, ERR_KEY_NOT_FOUND)
                /\ UNCHANGED pixKeys
           ELSE /\ pixKeys' = Splice1(pixKeys, keyIndex)
                /\ res' = [status |-> 200, error |-> ""]
        /\ UNCHANGED <<orders, analytics, now, uuidCount>>

-----------------------------------------------------------------------------
(* Analytics: inputs.  Event identifiers, session identifiers and action
   names are opaque strings; the ones used here are not names of properties
   of Object.prototype, which events[eventId] and clicks[action] would find
   on a plain object. *)

\* sessionId of a tracking body
SessionIdInputs == {{"s1"}, {"s2"}}

\* bodies of POST /api/analytics/pageview: of an event, from either session;
\* without eventId and with an empty one, from the first
PageViewBodies ==
    [page : {"/evento"}, eventId : {{"E1"}}, sessionId : SessionIdInputs,
     referrer : {{}}] \cup
    [page : {"/evento"}, eventId : {{}, {""}}, sessionId : {{"s1"}},
     referrer : {{}}]

\* action of a click: two of the five counted names, the selection of a
\* ticket, and a name the server does not know
ActionInputs == {"ingressos", "checkout", "ticket_select", "share"}

\* bodies of POST /api/analytics/click; data carries the ticket chosen
ClickBodies ==
    [eventId : {{}, {"E1"}}, action : ActionInputs, sessionId : {{"s1"}},
     data : {[ticketType |-> "vip"]}]

\* bodies of POST /api/analytics/checkout: of an event, from either session;
\* without eventId, from the first
CheckoutBodies ==
    [eventId : {{"E1"}}, sessionId : SessionIdInputs, items : {<<ITEM_INPUT>>},
     total : {100}] \cup
    [eventId : {{}}, sessionId : {{"s1"}}, items : {<<ITEM_INPUT>>}, total : {100}]

\* bodies of POST /api/analytics/conversion: of an event, from either
\* session; without eventId, from the first
ConversionBodies ==
    [eventId : {{"E1"}}, orderId : {{"order-1"}}, sessionId : SessionIdInputs,
     total : {100}] \cup
    [eventId : {{}}, orderId : {{"order-2"}}, sessionId : {{"s1"}}, total : {100}]

\* key of the dashboard query and of the reset body: missing, wrong, and the
\* secret
SecretInputs == {{}, {"guiche2024"}, {ANALYTICS_SECRET}}

-----------------------------------------------------------------------------
(* Analytics: helper functions. *)

\* the object initEventAnalytics stores for an event it has not seen
NewEventStats ==
    [views |-> 0, uniqueViews |-> {}, clicks |-> [a \in CLICK_ACTIONS |-> 0],
     ticketSelections |-> <<>>, checkouts |-> 0, conversions |-> 0,
     totalRevenue |-> 0]

\* an initialisation that forgets to look for the statistics already held
initEventAnalyticsAfresh(events, eventId) ==
    [e \in DOMAIN events \cup {eventId} |->
        IF e = eventId THEN NewEventStats ELSE events[e]]

\* initEventAnalytics(eventId), on the events map
initEventAnalytics(events, eventId) ==
    IF eventId \in DOMAIN events THEN events
    ELSE [e \in DOMAIN events \cup {eventId} |->
             IF e = eventId THEN NewEventStats ELSE events[e]]

\* a search that takes the latest started record of the session
FindStartedLast(list, sessionId) ==
    LET matching == {i \in 1..Len(list) :
                        list[i].sessionId = sessionId /\ list[i].status = "started"}
    IN  IF matching = {} THEN 0 ELSE CHOOSE i \in matching : \A j \in matching : j <= i

\* a search that forgets the test on the status
FindStartedAnyStatus(list, sessionId) ==
    FindIndex({i \in 1..Len(list) : list[i].sessionId = sessionId})

\* a search that forgets the test on the session
FindStartedAnySession(list, sessionId) ==
    FindIndex({i \in 1..Len(list) : list[i].status = "started"})

\* analytics.conversions.find(c => c.sessionId === sessionId &&
\* c.status === 'started'): the index of the record found, 0 for undefined
FindStarted(list, sessionId) ==
    FindIndex({i \in 1..Len(list) :
                  list[i].sessionId = sessionId /\ list[i].status = "started"})

\* the three assignments to the record found
CompleteConversion(conversion, orderId, t) ==
    [conversion EXCEPT !.status = "completed", !.orderId = orderId,
                       !.completedAt = {t}]

\* a conversion that records a completed entry when it finds none to promote
PromoteOrAppend(list, idx, body, t) ==
    IF idx = 0
    THEN Append(list, [id |-> "", eventId |-> body.eventId,
                       sessionId |-> body.sessionId, items |-> <<>>,
                       total |-> body.total, status |-> "completed",
                       timestamp |-> t, orderId |-> body.orderId,
                       completedAt |-> {t}])
    ELSE [list EXCEPT ![idx] = CompleteConversion(@, body.orderId, t)]

\* if (conversion) { ... }: the list after the conversion request
Promote(list, idx, body, t) ==
    IF idx = 0 THEN list
    ELSE [list EXCEPT ![idx] = CompleteConversion(@, body.orderId, t)]

\* a count that books a name it does not know as a click on checkout
CountClickUnknownAsCheckout(clicks, action) ==
    IF action \in DOMAIN clicks THEN [clicks EXCEPT ![action] = @ + 1]
    ELSE [clicks EXCEPT !["checkout"] = @ + 1]

\* if (clicks[action] !== undefined) { clicks[action]++ }
CountClick(clicks, action) ==
    IF action \in DOMAIN clicks THEN [clicks EXCEPT ![action] = @ + 1]
    ELSE clicks

\* a check of the secret that lets a request without key through
AuthorizedOrMissing(key) == key = {} \/ key = {ANALYTICS_SECRET}

\* !(key !== ANALYTICS_SECRET)
Authorized(key) == key = {ANALYTICS_SECRET}

\* list.filter(c => c.status === status).length
CountStatus(list, status) ==
    Cardinality({i \in 1..Len(list) : list[i].status = status})

\* (num / den).toFixed(2) for counts num >= 0 and den > 0: the decimal with
\* two digits after the point that is nearest to the quotient, the larger one
\* on a tie
ToFixed2(num, den) ==
    LET hundredths == (2 * 100 * num + den) \div (2 * den)
    IN  ToString(hundredths \div 100) \o "." \o
        ToString((hundredths % 100) \div 10) \o ToString(hundredths % 10)

\* a rate that cuts the quotient after two decimals instead of rounding it
ConversionRateTruncated(conversionCount, checkoutCount) ==
    IF checkoutCount > 0
    THEN LET hundredths == (100 * 100 * conversionCount) \div checkoutCount
         IN  ToString(hundredths \div 100) \o "." \o
             ToString((hundredths % 100) \div 10) \o ToString(hundredths % 10)
    ELSE "0"

\* checkouts > 0 ? ((conversions / checkouts) * 100).toFixed(2) : 0
\* the number 0 is written "0"
ConversionRate(conversionCount, checkoutCount) ==
    IF checkoutCount > 0 THEN ToFixed2(conversionCount * 100, checkoutCount)
    ELSE "0"

\* Array.prototype.reverse
Reverse(arr) == [i \in 1..Len(arr) |-> arr[Len(arr) + 1 - i]]

\* the first RECENT_LIMIT completed records instead of the last
RecentConversionsOldest(list) ==
    LET completed == SelectSeq(list, LAMBDA c : c.status = "completed")
    IN  Reverse(SubSeq(completed, 1,
                       IF Len(completed) < RECENT_LIMIT THEN Len(completed)
                       ELSE RECENT_LIMIT))

\* conversions.filter(c => c.status === 'completed').slice(-10).reverse()
RecentConversions(list) ==
    LET completed == SelectSeq(list, LAMBDA c : c.status = "completed")
    IN  Reverse(SubSeq(completed,
                       IF Len(completed) > RECENT_LIMIT
                       THEN Len(completed) - RECENT_LIMIT + 1 ELSE 1,
                       Len(completed)))

\* .filter(c => c.status === 'completed').reduce((sum, c) => sum + c.total, 0)
RECURSIVE CompletedRevenue(_)
CompletedRevenue(list) ==
    IF Len(list) = 0 THEN 0
    ELSE CompletedRevenue(SubSeq(list, 1, Len(list) - 1)) +
         (IF list[Len(list)].status = "completed" THEN list[Len(list)].total ELSE 0)

\* a test of recency that lets a page view of exactly 24 hours ago through
RecentInclusive(pvDate, last24h) == pvDate >= last24h

\* pvDate > last24h
Recent(pvDate, last24h) == pvDate > last24h

\* a bucket hour taken from a 12-hour clock
BucketHourHalfDay(t, i) == getHours(t - (i % 12) * HOUR_MS)

\* new Date(now.getTime() - i * 60 * 60 * 1000).getHours()
BucketHour(t, i) == getHours(t - i * HOUR_MS)

\* trafficByHour for the page views list read at time t: Array.from builds
\* the buckets for i = 0..23 and reverse() puts the one of i = 23 first
TrafficByHour(list, t) ==
    LET last24h == t - DAY_MS
        bucket(i) ==
            LET hour == BucketHour(t, i)
            IN  [hour |-> hour,
                 views |-> Cardinality(
                     {j \in 1..Len(list) :
                         LET pvDate == ParseISO(list[j].timestamp)
                         IN  Recent(pvDate, last24h) /\ getHours(pvDate) = hour})]
    IN  [k \in 1..TRAFFIC_HOURS |-> bucket(TRAFFIC_HOURS - k)]

\* the element of eventStats built from one entry of analytics.events
EventStatsView(eventId, data) ==
    [eventId |-> eventId, views |-> data.views,
     uniqueViews |-> Cardinality(data.uniqueViews), clicks |-> data.clicks,
     checkouts |-> data.checkouts, conversions |-> data.conversions,
     revenue |-> data.totalRevenue,
     conversionRate |-> ConversionRate(data.conversions, data.checkouts)]

\* the body of the dashboard for the analytics object a and the ledger list,
\* read at time t; events is keyed by event identifier, pages by page
DashboardResponse(a, list, t) ==
    LET totalCheckouts == CountStatus(a.conversions, "started")
        totalConversions == CountStatus(a.conversions, "completed")
        conversionRate == ConversionRate(totalConversions, totalCheckouts)
        pages == {a.pageViews[i].page : i \in 1..Len(a.pageViews)}
    IN  [status |-> 200, error |-> "",
         summary |-> [totalPageViews |-> Len(a.pageViews),
                      uniqueSessions |->
                          Cardinality({a.pageViews[i].sessionId :
                                          i \in 1..Len(a.pageViews)}),
                      totalOrders |-> Len(list),
                      totalCheckouts |-> totalCheckouts,
                      totalConversions |-> totalConversions,
                      conversionRate |-> conversionRate \o "%",
                      totalRevenue |-> CompletedRevenue(a.conversions)],
         events |-> [e \in DOMAIN a.events |-> EventStatsView(e, a.events[e])],
         pages |-> [p \in pages |->
                       Cardinality({i \in 1..Len(a.pageViews) :
                                       a.pageViews[i].page = p})],
         recentConversions |-> RecentConversions(a.conversions),
         trafficByHour |-> TrafficByHour(a.pageViews, t),
         timestamp |-> t]

-----------------------------------------------------------------------------
(* Analytics handlers.  A handler that cannot throw on these inputs never
   takes its catch branch. *)

\* POST /api/analytics/pageview; userAgent and ip are read from the request
PostPageView(body) ==
    LET pageView == [id |-> Uuid(uuidCount + 1), page |-> body.page,
                     eventId |-> body.eventId, sessionId |-> body.sessionId,
                     referrer |-> body.referrer, userAgent |-> "agent",
                     ip |-> "127.0.0.1", timestamp |-> ToISOString(now)]
        eventId == Val(body.eventId)
        events == initEventAnalytics(analytics.events, eventId)
    IN  /\ req' = [op |-> "POST /api/analytics/pageview", body |-> body]
        /\ analytics' =
              [analytics EXCEPT
                 !.pageViews = Append(@, pageView),
                 !.events = IF Falsy(body.eventId) THEN @
                            ELSE [events EXCEPT
                                    ![eventId].views = @ + 1,
                                    ![eventId].uniqueViews = @ \cup {body.sessionId}]]
        /\ uuidCount' = uuidCount + 1
        /\ res' = [status |-> 200, error |-> ""]
        /\ UNCHANGED <<pixKeys, orders, now>>

\* POST /api/analytics/click
PostClick(body) ==
    LET eventId == Val(body.eventId)
        events == initEventAnalytics(analytics.events, eventId)
        counted == [events EXCEPT ![eventId].clicks = CountClick(@, body.action)]
        selection == [sessionId |-> body.sessionId,
                      ticketType |-> body.data.ticketType, timestamp |-> now]
    IN  /\ req' = [op |-> "POST /api/analytics/click", body |-> body]
        /\ analytics' =
              [analytics EXCEPT
                 !.events = IF Falsy(body.eventId) THEN @
                            ELSE IF body.action = "ticket_select"
                            THEN [counted EXCEPT
                                    ![eventId].ticketSelections = Append(@, selection)]
                            ELSE counted]
        /\ res' = [status |-> 200, error |-> ""]
        /\ UNCHANGED <<pixKeys, orders, now, uuidCount>>

\* POST /api/analytics/checkout.  A record has no orderId and no completedAt
\* until it is completed: {} is undefined
PostCheckout(body) ==
    LET eventId == Val(body.eventId)
        events == initEventAnalytics(analytics.events, eventId)
        conversion == [id |-> Uuid(uuidCount + 1), eventId |-> body.eventId,
                       sessionId |-> body.sessionId, items |-> body.items,
                       total |-> body.total, status |-> "started",
                       timestamp |-> now, orderId |-> {}, completedAt |-> {}]
    IN  /\ req' = [op |-> "POST /api/analytics/checkout", body |-> body]
        /\ analytics' =
              [analytics EXCEPT
                 !.events = IF Falsy(body.eventId) THEN @
                            ELSE [events EXCEPT ![eventId].checkouts = @ + 1],
                 !.conversions = Append(@, conversion)]
        /\ uuidCount' = uuidCount + 1
        /\ res' = [status |-> 200, error |-> ""]
        /\ UNCHANGED <<pixKeys, orders, now>>

\* POST /api/analytics/conversion
PostConversion(body) ==
    LET eventId == Val(body.eventId)
        events == initEventAnalytics(analytics.events, eventId)
        idx == FindStarted(analytics.conversions, body.sessionId)
    IN  /\ req' = [op |-> "POST /api/analytics/conversion", body |-> body]
        /\ analytics' =
              [analytics EXCEPT
                 !.events = IF Falsy(body.eventId) THEN @
                            ELSE [events EXCEPT
                                    ![eventId].conversions = @ + 1,
                                    ![eventId].totalRevenue = @ + body.total],
                 !.conversions = Promote(@, idx, body, now)]
        /\ res' = [status |-> 200, error |-> ""]
        /\ UNCHANGED <<pixKeys, orders, now, uuidCount>>

\* GET /api/analytics/dashboard?key=...
GetDashboard(key) ==
    /\ req' = [op |-> "GET /api/analytics/dashboard", key |-> key]
    /\ res' = IF Authorized(key) THEN DashboardResponse(analytics, orders, now)
              ELSE Failure(401, ERR_INVALID_KEY)
    /\ UNCHANGED <<pixKeys, orders, analytics, now, uuidCount>>

\* a reset that keeps the conversion records
ResetKeepingConversions(a) == [EmptyAnalytics EXCEPT !.conversions = a.conversions]

\* a reset that keeps the event statistics
ResetKeepingEvents(a) == [EmptyAnalytics EXCEPT !.events = a.events]

\* analytics = { pageViews: [], events: {}, sessions: [], conversions: [] }
ResetAnalytics(a) == EmptyAnalytics

\* POST /api/analytics/reset
PostReset(body) ==
    /\ req' = [op |-> "POST /api/analytics/reset", body |-> body]
    /\ IF Authorized(body.key)
       THEN /\ analytics' = ResetAnalytics(analytics)
            /\ res' = [status |-> 200, error |-> "", message |-> "Analytics resetado"]
       ELSE /\ res' = Failure(401, ERR_UNAUTHORIZED)
            /\ UNCHANGED analytics
    /\ UNCHANGED <<pixKeys, orders, now, uuidCount>>

-----------------------------------------------------------------------------
(* The server: one request at a time, in any order. *)

CreateOrder ==
    \E body \in PaymentBodies, random \in RandomSuffixes,
       randomIndex \in RandomIndexes(Len(ActiveKeys(pixKeys))),
       tCreated \in now..MaxClock, tExpires \in now..MaxClock :
        PostPayment(body, randomIndex, random, tCreated, tExpires)

Confirm == \E orderId \in OrderIdInputs : ConfirmPayment(orderId)

Get == \E orderId \in OrderIdInputs : GetOrder(orderId)

AddKey == \E body \in AddBodies : PostPixKey(body)

UpdateKey == \E id \in KeyIdInputs, body \in FewUpdateBodies : PutPixKey(id, body)

RemoveKey == \E id \in KeyIdInputs : DeletePixKey(id)

UpdateFewKeys == \E id \in FewKeyIdInputs, body \in UpdateBodies : PutPixKey(id, body)

RemoveFewKeys == \E id \in FewKeyIdInputs : DeletePixKey(id)

\* the key registry alone, up to its capacity
NextRegistry == AddKey \/ UpdateFewKeys \/ RemoveFewKeys

SpecRegistry == Init /\ [][NextRegistry]_vars

\* the order ledger alone, against the seed key
NextLedger ==
    \/ Tick
    \/ Len(orders) < MaxLedger /\ CreateOrder
    \/ Confirm
    \/ Get

SpecLedger == Init /\ [][NextLedger]_vars

\* the order handlers against a registry of a few keys
Next ==
    \/ Tick
    \/ Len(orders) < MaxOrders /\ CreateOrder
    \/ Confirm
    \/ uuidCount < MaxAdds /\ AddKey
    \/ UpdateKey
    \/ RemoveKey

Spec == Init /\ [][Next]_vars

-----------------------------------------------------------------------------
(* The analytics endpoints: one request at a time, in any order. *)

RecordPageView == \E body \in PageViewBodies : PostPageView(body)

RecordClick == \E body \in ClickBodies : PostClick(body)

RecordCheckout == \E body \in CheckoutBodies : PostCheckout(body)

RecordConversion == \E body \in ConversionBodies : PostConversion(body)

ReadDashboard == \E key \in SecretInputs : GetDashboard(key)

Reset == \E key \in SecretInputs : PostReset([key |-> key])

\* a customer places an order
PlaceOrder ==
    PostPayment([customer |-> {VALID_CUSTOMER}, items |-> {<<ITEM_INPUT>>},
                 total |-> 100], 0, "0A1B", now, now)

\* the clicks and selections counted for an event
RECURSIVE SumClicks(_, _)
SumClicks(clicks, names) ==
    IF names = {} THEN 0
    ELSE LET a == CHOOSE n \in names : TRUE
         IN  clicks[a] + SumClicks(clicks, names \ {a})

ClicksTracked(data) ==
    SumClicks(data.clicks, DOMAIN data.clicks) + Len(data.ticketSelections)

RECURSIVE SumEvents(_, _)
SumEvents(events, ids) ==
    IF ids = {} THEN 0
    ELSE LET e == CHOOSE id \in ids : TRUE
         IN  ClicksTracked(events[e]) + events[e].conversions +
             SumEvents(events, ids \ {e})

\* how many tracked things the analytics object holds
Tracked ==
    Len(analytics.pageViews) + Len(analytics.conversions) +
    SumEvents(analytics.events, DOMAIN analytics.events)

\* the analytics endpoints, over a ledger that is empty or holds one order
\* placed before the first tracking request
NextAnalytics ==
    \/ uuidCount < MaxUuid /\ Tracked < MaxTracked /\ RecordPageView
    \/ Tracked < MaxTracked /\ RecordClick
    \/ uuidCount < MaxUuid /\ Tracked < MaxTracked /\ RecordCheckout
    \/ Tracked < MaxTracked /\ RecordConversion
    \/ ReadDashboard
    \/ Reset
    \/ uuidCount = 0 /\ PlaceOrder

SpecAnalytics == Init /\ [][NextAnalytics]_vars

\* the checkout funnel of one event alone: checkouts of two sessions, of
\* which only the first pays, each time after a checkout of its own
FunnelCheckout ==
    \E sessionId \in SessionIdInputs :
        PostCheckout([eventId |-> {"E1"}, sessionId |-> sessionId,
                      items |-> <<ITEM_INPUT>>, total |-> 100])

FunnelConversion ==
    PostConversion([eventId |-> {"E1"}, orderId |-> {"order-1"},
                    sessionId |-> {"s1"}, total |-> 100])

FunnelDashboard == GetDashboard({ANALYTICS_SECRET})

NextFunnel ==
    \/ Len(analytics.conversions) < MaxFunnel /\ FunnelCheckout
    \/ FindStarted(analytics.conversions, {"s1"}) # 0 /\ FunnelConversion
    \/ FunnelDashboard

SpecFunnel == Init /\ [][NextFunnel]_vars

\* the items of a cart whose price is given under unitPrice, under
\* unit_price, under both or under neither, a price of 0 included
PricedItems ==
    [title : {"Pista"}, unitPrice : {{}, {0}, {50}}, unit_price : {{}, {0}, {30}},
     quantity : {2}]

CreatePricedOrder ==
    \E item \in PricedItems :
        PostPayment([customer |-> {VALID_CUSTOMER}, items |-> {<<item>>},
                     total |-> 100], 0, "0A1B", now, now)

\* orders of one item each, priced in every way, and their reading
NextPrices ==
    \/ Len(orders) < MaxLedger /\ CreatePricedOrder
    \/ Get

SpecPrices == Init /\ [][NextPrices]_vars

\* how long the clock runs between two requests: half an hour, or half an
\* hour short of a day
ElapseInputs == {30 * 60 * 1000, DAY_MS - 30 * 60 * 1000}

\* time passes between two requests
Elapse ==
    \E d \in ElapseInputs :
        /\ now + d <= MaxTrafficHours * HOUR_MS
        /\ now' = now + d
        /\ req' = NoRequest
        /\ res' = NoResponse
        /\ UNCHANGED <<pixKeys, orders, analytics, uuidCount>>

TrafficPageView ==
    PostPageView([page |-> "/evento", eventId |-> {"E1"}, sessionId |-> {"s1"},
                  referrer |-> {}])

TrafficDashboard == GetDashboard({ANALYTICS_SECRET})

\* page views and dashboard reads over more than a day
NextTraffic ==
    \/ Elapse
    \/ Len(analytics.pageViews) < MaxViews /\ TrafficPageView
    \/ TrafficDashboard

SpecTraffic == Init /\ [][NextTraffic]_vars


-----------------------------------------------------------------------------
(* Properties. *)

OP_PAYMENT == "POST /api/payment"
OP_CONFIRM == "POST /api/payment/:orderId/confirm"
OP_ADD_KEY == "POST /api/admin/pix-keys"
OP_PUT_KEY == "PUT /api/admin/pix-keys/:id"
OP_DELETE_KEY == "DELETE /api/admin/pix-keys/:id"

\* the customer of a payment body has a non-empty name, email and cpf
CompleteCustomer(body) ==
    /\ body.customer # {}
    /\ \A c \in body.customer :
          /\ c.name \notin {{}, {""}}
          /\ c.email \notin {{}, {""}}
          /\ c.cpf \notin {{}, {<<>>}}

\* the items of a payment body are a non-empty list
NonEmptyItems(body) == body.items \notin {{}, {<<>>}}

\* no key of the registry has its active flag set
NoActiveKey == \A i \in 1..Len(pixKeys) : ~pixKeys[i].active

\* the order the path parameter orderId addresses: the first one whose
\* identifier or code it equals, 0 when there is none
Addressed(list, orderId) ==
    IF \E i \in 1..Len(list) : orderId \in {list[i].id, list[i].code}
    THEN CHOOSE i \in 1..Len(list) :
            /\ orderId \in {list[i].id, list[i].code}
            /\ \A j \in 1..(i - 1) : orderId \notin {list[j].id, list[j].code}
    ELSE 0

\* C1: the key registry never holds more than 5 keys, and an add issued when
\* it holds 5 keys fails and leaves the registry unchanged.
C1_AtMostFiveKeys ==
    /\ [](Len(pixKeys) <= 5)
    /\ [][(Len(pixKeys) = 5 /\ req'.op = OP_ADD_KEY)
            => (res'.status = 400 /\ pixKeys' = pixKeys)]_vars

C1_Witness ==
    /\ req.op = OP_ADD_KEY
    /\ res = [status |-> 400, error |-> ERR_LIMIT]
    /\ Len(pixKeys) = 5

\* C2: no two registered keys have the same key-string.
C2_KeyStringsUnique ==
    \A i, j \in 1..Len(pixKeys) : i # j => pixKeys[i].key # pixKeys[j].key

\* C3: after a successful create the stored order is pending, its expiresAt is
\* its createdAt plus 30 minutes, and its key is one of the active keys.
C3_CreatedOrder ==
    (req.op = OP_PAYMENT /\ res.status = 200) =>
        LET order == orders[Len(orders)]
        IN  /\ order.status = "pending"
            /\ order.expiresAt = order.createdAt + 30 * 60 * 1000
            /\ \E i \in 1..Len(pixKeys) :
                  /\ pixKeys[i].active
                  /\ order.pixKey = [id |-> pixKeys[i].id, key |-> pixKeys[i].key,
                                     type |-> pixKeys[i].type, name |-> pixKeys[i].name]

\* C4: a create with a complete customer and non-empty items fails with the
\* no-key-available error whenever no registered key is active, and appends
\* no order.
C4_NoKeyAvailable ==
    [][(req'.op = OP_PAYMENT /\ CompleteCustomer(req'.body)
          /\ NonEmptyItems(req'.body) /\ NoActiveKey)
         => (res' = [status |-> 500, error |-> ERR_NO_KEY] /\ orders' = orders)]_vars

C4_Witness ==
    /\ req.op = OP_PAYMENT
    /\ res = [status |-> 500, error |-> ERR_NO_KEY]
    /\ Len(pixKeys) >= 1
    /\ NoActiveKey

\* C5: the key snapshot of an order equals the fields the key had when the
\* order was created, and no later request changes it.
C5_SnapshotImmutable ==
    [][/\ Len(orders') >= Len(orders)
       /\ \A i \in 1..Len(orders) : orders'[i].pixKey = orders[i].pixKey
       /\ \A i \in (Len(orders) + 1)..Len(orders') :
             \E k \in 1..Len(pixKeys) :
                orders'[i].pixKey = [id |-> pixKeys[k].id, key |-> pixKeys[k].key,
                                     type |-> pixKeys[k].type, name |-> pixKeys[k].name]]_vars

\* an order whose key was updated after it was assigned, and one whose key
\* was removed
C5_Witness ==
    \E i \in 1..Len(orders) :
        /\ req.op \in {OP_PUT_KEY, OP_DELETE_KEY}
        /\ res.status = 200
        /\ req.id = orders[i].pixKey.id
        /\ \A k \in 1..Len(pixKeys) :
              pixKeys[k].id = orders[i].pixKey.id => pixKeys[k].key # orders[i].pixKey.key

\* C6: a confirm addressed by the identifier or by the code of a stored order
\* succeeds, and afterwards get by that order's identifier and get by its code
\* return the same order, with status paid.
C6_ConfirmThenGetAgree ==
    req.op = OP_CONFIRM =>
        \A i \in 1..Len(orders) :
            req.orderId \in {orders[i].id, orders[i].code} =>
                /\ res.status = 200
                /\ GetOrderResponse(orders, orders[i].id)
                     = GetOrderResponse(orders, orders[i].code)
                /\ GetOrderResponse(orders, orders[i].id).order.status = "paid"

\* C7: an add with all its fields whose key-string is already registered fails
\* with the duplicate-key error, however many keys the registry holds.
C7_DuplicateWinsOverCapacity ==
    (/\ req.op = OP_ADD_KEY
     /\ \A f \in {req.body.key, req.body.type, req.body.name} : f \notin {{}, {""}}
     /\ res.status # 200
     /\ \E i \in 1..Len(pixKeys) : {pixKeys[i].key} = req.body.key)
        => res = [status |-> 400, error |-> ERR_DUPLICATE]

\* C8: an order is created pending, a paid order stays paid, and the ledger
\* never loses an order: its length never decreases and every entry keeps its
\* position.
C8_PendingToPaidOnly ==
    [][/\ Len(orders') >= Len(orders)
       /\ \A i \in 1..Len(orders) :
             /\ [orders'[i] EXCEPT !.status = orders[i].status,
                                   !.paidAt = orders[i].paidAt] = orders[i]
             /\ orders[i].status = "paid" => orders'[i].status = "paid"
       /\ \A i \in 1..Len(orders') : orders'[i].status \in {"pending", "paid"}
       /\ \A i \in (Len(orders) + 1)..Len(orders') : orders'[i].status = "pending"]_vars

C8_Witness ==
    /\ Len(orders) = 2
    /\ req.op = OP_CONFIRM
    /\ orders[1].status = "pending"
    /\ orders[2].status = "paid"

\* C9: a confirm of an order that is already paid succeeds, leaves it paid,
\* sets its paidAt to the time of this confirm and changes nothing else in
\* the ledger.
C9_Reconfirm ==
    [][(/\ req'.op = OP_CONFIRM
        /\ Addressed(orders, req'.orderId) # 0
        /\ orders[Addressed(orders, req'.orderId)].status = "paid")
         => LET i == Addressed(orders, req'.orderId)
            IN  /\ res'.status = 200
                /\ orders'[i].status = "paid"
                /\ orders'[i].paidAt = {now'}
                /\ orders' = [orders EXCEPT ![i].paidAt = {now'}]]_vars

\* a paid order confirmed again, at a later time than before
C9_Witness ==
    /\ req.op = OP_CONFIRM
    /\ res.status = 200
    /\ res.found.status = "paid"
    /\ res.found.paidAt # res.order.paidAt

\* C10: a create fails with the invalid-customer error when the customer is
\* missing or lacks a name, email or cpf, otherwise with the empty-cart error
\* when items is missing or empty, whatever the registry holds; a failed create
\* changes neither the ledger nor the registry.
C10_ValidationFirst ==
    [][req'.op = OP_PAYMENT =>
         /\ ~CompleteCustomer(req'.body)
              => res' = [status |-> 400, error |-> ERR_CUSTOMER]
         /\ (CompleteCustomer(req'.body) /\ ~NonEmptyItems(req'.body))
              => res' = [status |-> 400, error |-> ERR_CART]
         /\ res'.status # 200 => (orders' = orders /\ pixKeys' = pixKeys)]_vars

\* an empty cart reported although no key is active
C10_Witness ==
    /\ req.op = OP_PAYMENT
    /\ res = [status |-> 400, error |-> ERR_CART]
    /\ req.body.items = {<<>>}
    /\ Len(pixKeys) >= 1
    /\ NoActiveKey

-----------------------------------------------------------------------------
(* Properties of the lookups, the secret and the update of a key. *)

OP_GET_ORDER == "GET /api/order/:orderId"
OP_PAGEVIEW == "POST /api/analytics/pageview"
OP_CLICK == "POST /api/analytics/click"
OP_CHECKOUT == "POST /api/analytics/checkout"
OP_CONVERSION == "POST /api/analytics/conversion"
OP_DASHBOARD == "GET /api/analytics/dashboard"
OP_RESET == "POST /api/analytics/reset"

\* C11: a confirm or a get whose path value equals neither the identifier nor
\* the code of any stored order is answered 404 "Pedido não encontrado", and
\* the ledger is the same after it as before.
C11_UnknownOrderNotFound ==
    [][(/\ req'.op \in {OP_CONFIRM, OP_GET_ORDER}
        /\ \A i \in 1..Len(orders) :
              req'.orderId \notin {orders[i].id, orders[i].code})
         => (/\ res' = [status |-> 404, error |-> ERR_ORDER_NOT_FOUND]
             /\ orders' = orders)]_vars

\* a confirm of an unknown value was refused while the ledger held a pending
\* order
C11_Witness ==
    /\ req.op = OP_CONFIRM
    /\ req.orderId = "no-such-order"
    /\ res = [status |-> 404, error |-> ERR_ORDER_NOT_FOUND]
    /\ Len(orders) >= 1
    /\ orders[1].status = "pending"

\* C12: the dashboard and the reset answer 401 to every key other than the
\* analytics secret, a missing key included, and 200 to the secret itself; a
\* reset answered 401 leaves the analytics object as it was.
C12_SecretGuardsDashboardAndReset ==
    [][/\ req'.op = OP_DASHBOARD =>
             IF req'.key = {ANALYTICS_SECRET} THEN res'.status = 200
             ELSE res' = [status |-> 401, error |-> ERR_INVALID_KEY]
       /\ req'.op = OP_RESET =>
             IF req'.body.key = {ANALYTICS_SECRET} THEN res'.status = 200
             ELSE /\ res' = [status |-> 401, error |-> ERR_UNAUTHORIZED]
                  /\ analytics' = analytics]_vars

\* a reset without key was refused while page views, event statistics and
\* conversion records were held
C12_Witness ==
    /\ req.op = OP_RESET
    /\ req.body.key = {}
    /\ res.status = 401
    /\ Len(analytics.pageViews) >= 1
    /\ Len(analytics.conversions) >= 1
    /\ DOMAIN analytics.events # {}

\* the started records of a session in a list of conversion records
StartedOf(list, sessionId) ==
    {i \in 1..Len(list) : list[i].sessionId = sessionId /\ list[i].status = "started"}

\* C13: a conversion request for a session that has started records changes
\* exactly one conversion record: the one of them appended first becomes
\* completed and carries the orderId of the request; every other record, a
\* later started record of the same session included, stays as it was.
C13_PromotesEarliestStarted ==
    [][(/\ req'.op = OP_CONVERSION
        /\ StartedOf(analytics.conversions, req'.body.sessionId) # {})
         => LET list == analytics.conversions
                started == StartedOf(list, req'.body.sessionId)
                first == CHOOSE i \in started : \A j \in started : i <= j
            IN  /\ Len(analytics'.conversions) = Len(list)
                /\ analytics'.conversions[first] =
                      [list[first] EXCEPT !.status = "completed",
                                          !.orderId = req'.body.orderId,
                                          !.completedAt = {now}]
                /\ \A i \in 1..Len(list) :
                      i # first => analytics'.conversions[i] = list[i]]_vars

\* a conversion completed the first of two started records of its session and
\* left the second started
C13_Witness ==
    /\ req.op = OP_CONVERSION
    /\ Len(analytics.conversions) = 2
    /\ analytics.conversions[1].sessionId = req.body.sessionId
    /\ analytics.conversions[2].sessionId = req.body.sessionId
    /\ analytics.conversions[1].status = "completed"
    /\ analytics.conversions[1].orderId = req.body.orderId
    /\ analytics.conversions[2].status = "started"

\* the statistics an events map holds for an event: those of a new event
\* when it holds none
StatsOf(events, eventId) ==
    IF eventId \in DOMAIN events THEN events[eventId] ELSE NewEventStats

\* the eventId of a tracking body is supplied: it is neither missing nor empty
Supplied(eventId) == eventId \notin {{}, {""}}

\* C14: a page view request appends one page view carrying the page, eventId
\* and sessionId of the request, and changes no earlier one; with an eventId
\* the event's statistics (created when absent) get one more view and the
\* sessionId in their set of viewers, and nothing else about them or any
\* other event changes; without an eventId the event statistics stay as they
\* were.
C14_PageViewCounts ==
    [][req'.op = OP_PAGEVIEW =>
         LET body == req'.body
             before == analytics.pageViews
             after == analytics'.pageViews
         IN  /\ Len(after) = Len(before) + 1
             /\ SubSeq(after, 1, Len(before)) = before
             /\ after[Len(after)].page = body.page
             /\ after[Len(after)].eventId = body.eventId
             /\ after[Len(after)].sessionId = body.sessionId
             /\ IF Supplied(body.eventId)
                THEN LET e == Val(body.eventId)
                         old == StatsOf(analytics.events, e)
                     IN  /\ DOMAIN analytics'.events = DOMAIN analytics.events \cup {e}
                         /\ analytics'.events[e] =
                               [old EXCEPT !.views = @ + 1,
                                           !.uniqueViews = @ \cup {body.sessionId}]
                         /\ \A o \in DOMAIN analytics.events \ {e} :
                               analytics'.events[o] = analytics.events[o]
                ELSE analytics'.events = analytics.events]_vars

\* two page views of one event from two sessions: two views, two viewers
C14_Witness ==
    /\ req.op = OP_PAGEVIEW
    /\ Len(analytics.pageViews) = 2
    /\ analytics.pageViews[1].eventId = {"E1"}
    /\ analytics.pageViews[2].eventId = {"E1"}
    /\ analytics.pageViews[1].sessionId # analytics.pageViews[2].sessionId
    /\ analytics.events["E1"].views = 2
    /\ Cardinality(analytics.events["E1"].uniqueViews) = 2

\* C15: a reset answered 200 leaves no page view, no event statistics and no
\* conversion record, and the same key registry and ledger as before; the
\* dashboard read in the state it leaves reports 0 page views, 0 checkouts,
\* 0 conversions and no event.
C15_ResetEmptiesAnalyticsOnly ==
    [][(req'.op = OP_RESET /\ res'.status = 200)
         => /\ analytics'.pageViews = <<>>
            /\ DOMAIN analytics'.events = {}
            /\ analytics'.conversions = <<>>
            /\ pixKeys' = pixKeys
            /\ orders' = orders
            /\ LET dashboard == DashboardResponse(analytics', orders', now')
               IN  /\ dashboard.summary.totalPageViews = 0
                   /\ dashboard.summary.totalCheckouts = 0
                   /\ dashboard.summary.totalConversions = 0
                   /\ DOMAIN dashboard.events = {}]_vars

\* a reset succeeded after page views or checkouts had been tracked, over a
\* ledger that holds an order
C15_Witness ==
    /\ req.op = OP_RESET
    /\ res.status = 200
    /\ analytics = EmptyAnalytics
    /\ Len(orders) = 1
    /\ uuidCount >= 3

\* C16: a PUT on a registered identifier stores, for each of key, type, name
\* and active, the value of the body when the body has one and the old value
\* otherwise, stamps updatedAt, and leaves the key's id and createdAt, every
\* other key and the ledger as they were; a PUT on an identifier that is not
\* registered is answered 404 and changes neither registry nor ledger.
C16_UpdateTouchesSuppliedFieldsOnly ==
    [][req'.op = OP_PUT_KEY =>
         LET body == req'.body
             found == {i \in 1..Len(pixKeys) : pixKeys[i].id = req'.id}
         IN  IF found = {}
             THEN /\ res' = [status |-> 404, error |-> ERR_KEY_NOT_FOUND]
                  /\ pixKeys' = pixKeys
                  /\ orders' = orders
             ELSE LET i == CHOOSE k \in found : \A j \in found : k <= j
                      old == pixKeys[i]
                      new == pixKeys'[i]
                  IN  /\ Len(pixKeys') = Len(pixKeys)
                      /\ \A j \in 1..Len(pixKeys) : j # i => pixKeys'[j] = pixKeys[j]
                      /\ orders' = orders
                      /\ new.id = old.id
                      /\ new.createdAt = old.createdAt
                      /\ new.key = (IF body.key = {} THEN old.key ELSE Val(body.key))
                      /\ new.type = (IF body.type = {} THEN old.type ELSE Val(body.type))
                      /\ new.name = (IF body.name = {} THEN old.name ELSE Val(body.name))
                      /\ new.active = (IF body.active = {} THEN old.active
                                       ELSE Val(body.active))
                      /\ new.updatedAt = {now}]_vars

\* a PUT that supplied key, type and name and no active flag renamed a key
\* that had been switched off, beside another key, and left it off
C16_Witness ==
    /\ req.op = OP_PUT_KEY
    /\ res.status = 200
    /\ req.body.name = {"Nova"}
    /\ req.body.active = {}
    /\ Len(pixKeys) >= 2
    /\ \E i \in 1..Len(pixKeys) :
          /\ pixKeys[i].id = req.id
          /\ pixKeys[i].name = "Nova"
          /\ ~pixKeys[i].active

\* C17: a conversion request for a session without started record leaves the
\* list of conversion records as it was; with an eventId it still adds one to
\* the event's conversion counter and the request's total to its revenue.
C17_UnmatchedConversionCountsOnly ==
    [][(/\ req'.op = OP_CONVERSION
        /\ StartedOf(analytics.conversions, req'.body.sessionId) = {})
         => /\ analytics'.conversions = analytics.conversions
            /\ res'.status = 200
            /\ Supplied(req'.body.eventId) =>
                  LET e == Val(req'.body.eventId)
                      old == StatsOf(analytics.events, e)
                  IN  /\ e \in DOMAIN analytics'.events
                      /\ analytics'.events[e].conversions = old.conversions + 1
                      /\ analytics'.events[e].totalRevenue =
                            old.totalRevenue + req'.body.total]_vars

\* a conversion of an event was counted for a session that has no record,
\* beside the started record of another session
C17_Witness ==
    /\ req.op = OP_CONVERSION
    /\ req.body.eventId = {"E1"}
    /\ Len(analytics.conversions) = 1
    /\ analytics.conversions[1].sessionId # req.body.sessionId
    /\ analytics.conversions[1].status = "started"
    /\ analytics.events["E1"].conversions = 1
    /\ analytics.events["E1"].totalRevenue = 100

\* C18: a click request changes no page view and no conversion record;
\* without an eventId it changes nothing; with one, the event's statistics
\* (created when absent) keep their views, viewers, checkouts, conversions
\* and revenue, each of the five click counters grows by one when it is the
\* one the action names and stays otherwise, and the list of ticket
\* selections gets one more entry when the action is ticket_select and stays
\* otherwise; no other event changes.
C18_ClickCounts ==
    [][req'.op = OP_CLICK =>
         LET body == req'.body
         IN  /\ analytics'.pageViews = analytics.pageViews
             /\ analytics'.conversions = analytics.conversions
             /\ IF ~Supplied(body.eventId) THEN analytics' = analytics
                ELSE LET e == Val(body.eventId)
                         old == StatsOf(analytics.events, e)
                         new == analytics'.events[e]
                     IN  /\ DOMAIN analytics'.events = DOMAIN analytics.events \cup {e}
                         /\ \A o \in DOMAIN analytics.events \ {e} :
                               analytics'.events[o] = analytics.events[o]
                         /\ new.views = old.views
                         /\ new.uniqueViews = old.uniqueViews
                         /\ new.checkouts = old.checkouts
                         /\ new.conversions = old.conversions
                         /\ new.totalRevenue = old.totalRevenue
                         /\ DOMAIN new.clicks = CLICK_ACTIONS
                         /\ \A a \in CLICK_ACTIONS :
                               new.clicks[a] =
                                  old.clicks[a] + (IF a = body.action THEN 1 ELSE 0)
                         /\ IF body.action = "ticket_select"
                            THEN /\ Len(new.ticketSelections) =
                                       Len(old.ticketSelections) + 1
                                 /\ SubSeq(new.ticketSelections, 1,
                                           Len(old.ticketSelections)) =
                                       old.ticketSelections
                                 /\ new.ticketSelections[Len(new.ticketSelections)]
                                       .sessionId = body.sessionId
                            ELSE new.ticketSelections = old.ticketSelections]_vars

\* a ticket was selected for an event that has a page view and a counted
\* click
C18_Witness ==
    /\ req.op = OP_CLICK
    /\ req.body.action = "ticket_select"
    /\ "E1" \in DOMAIN analytics.events
    /\ Len(analytics.events["E1"].ticketSelections) = 1
    /\ analytics.events["E1"].clicks["ingressos"] = 1
    /\ analytics.events["E1"].views = 1

\* the decimal with two digits after the point for a number of hundredths
TwoDecimals(hundredths) ==
    ToString(hundredths \div 100) \o "." \o
    ToString((hundredths % 100) \div 10) \o ToString(hundredths % 10)

\* rate is the text of (conversions / checkouts) * 100 rounded to two
\* decimals, and the text of 0 when there is no checkout, followed by unit
IsRate(rate, conversionCount, checkoutCount, unit) ==
    IF checkoutCount = 0 THEN rate = "0" \o unit
    ELSE LET exact == 100 * 100 * conversionCount
             floor == exact \div checkoutCount
         IN  \E h \in {floor, floor + 1} :
                /\ rate = TwoDecimals(h) \o unit
                /\ 2 * (exact - h * checkoutCount) <= checkoutCount
                /\ 2 * (h * checkoutCount - exact) <= checkoutCount

\* C19: in a dashboard, totalCheckouts is the number of conversion records
\* that are started and totalConversions the number that are completed; the
\* conversionRate is "0%" when totalCheckouts is 0, whatever totalConversions
\* is, and otherwise (totalConversions / totalCheckouts) * 100 rounded to two
\* decimals, followed by "%"; the rate of an event is the same function of
\* the event's checkout counter and conversion counter.
C19_DashboardRates ==
    (req.op = OP_DASHBOARD /\ res.status = 200) =>
        LET list == analytics.conversions
            started == Cardinality({i \in 1..Len(list) : list[i].status = "started"})
            completed == Cardinality({i \in 1..Len(list) :
                                         list[i].status = "completed"})
        IN  /\ res.summary.totalCheckouts = started
            /\ res.summary.totalConversions = completed
            /\ IsRate(res.summary.conversionRate, completed, started, "%")
            /\ DOMAIN res.events = DOMAIN analytics.events
            /\ \A e \in DOMAIN res.events :
                  IsRate(res.events[e].conversionRate,
                         analytics.events[e].conversions,
                         analytics.events[e].checkouts, "")

\* a dashboard of three checkouts of which two are completed: the event
\* converts 2 of 3, the summary 2 on 1
C19_Witness ==
    /\ req.op = OP_DASHBOARD
    /\ res.status = 200
    /\ res.summary.totalCheckouts = 1
    /\ res.summary.totalConversions = 2
    /\ res.summary.conversionRate = "200.00%"
    /\ res.events["E1"].conversionRate = "66.67"

\* the completed records of a list of conversion records, by position
CompletedOf(list) == {i \in 1..Len(list) : list[i].status = "completed"}

\* C20: the recentConversions of a dashboard are the completed conversion
\* records that have fewer than 10 completed records after them in the list,
\* each once, the one appended last first: at most 10, and never a record
\* that is started.
C20_RecentConversions ==
    (req.op = OP_DASHBOARD /\ res.status = 200) =>
        LET list == analytics.conversions
            completed == CompletedOf(list)
            recent == res.recentConversions
            \* how many completed records come after position i
            later(i) == Cardinality({j \in completed : j > i})
        IN  /\ Len(recent) <= 10
            /\ Len(recent) = Cardinality({i \in completed : later(i) < 10})
            /\ \A k \in 1..Len(recent) :
                  \E i \in completed : later(i) = k - 1 /\ recent[k] = list[i]

\* a dashboard of eleven completed records and a started one among them:
\* the first completed record is left out
C20_Witness ==
    /\ req.op = OP_DASHBOARD
    /\ res.status = 200
    /\ Cardinality(CompletedOf(analytics.conversions)) = 11
    /\ Len(res.recentConversions) = 10
    /\ analytics.conversions[2].status = "started"
    /\ res.recentConversions[10] = analytics.conversions[3]
    /\ res.recentConversions[1] = analytics.conversions[12]

-----------------------------------------------------------------------------
(* Properties of the traffic histogram. *)

\* the time a stored page view was taken at, in milliseconds
TakenAt(pageView) ==
    pageView.timestamp.day * DAY_MS + pageView.timestamp.hours * HOUR_MS
    + pageView.timestamp.minutes * 60 * 1000
    + pageView.timestamp.seconds * 1000 + pageView.timestamp.milliseconds

\* the page views taken strictly after 24 hours before now
InLast24h ==
    {j \in 1..Len(analytics.pageViews) :
        TakenAt(analytics.pageViews[j]) > now - 24 * 60 * 60 * 1000}

\* C21: the trafficByHour of a dashboard has 24 entries, one for each hour of
\* the day 0..23, and the entry of an hour counts exactly the page views
\* taken strictly after now minus 24 hours at that hour of the day, whatever
\* their calendar day; a page view taken at or before now minus 24 hours is
\* counted by none.
C21_TrafficByHourOfDay ==
    (req.op = OP_DASHBOARD /\ res.status = 200) =>
        /\ Len(res.trafficByHour) = 24
        /\ {res.trafficByHour[k].hour : k \in 1..Len(res.trafficByHour)} = 0..23
        /\ \A k \in 1..Len(res.trafficByHour) :
              res.trafficByHour[k].views =
                 Cardinality({j \in InLast24h :
                                 analytics.pageViews[j].timestamp.hours =
                                    res.trafficByHour[k].hour})

\* a dashboard with two page views of the same hour of two calendar days,
\* both in the last 24 hours and both in one bucket
C21_Witness ==
    /\ req.op = OP_DASHBOARD
    /\ res.status = 200
    /\ Len(analytics.pageViews) = 2
    /\ analytics.pageViews[1].timestamp.day # analytics.pageViews[2].timestamp.day
    /\ analytics.pageViews[1].timestamp.hours = analytics.pageViews[2].timestamp.hours
    /\ \E k \in 1..24 :
          /\ res.trafficByHour[k].hour = analytics.pageViews[1].timestamp.hours
          /\ res.trafficByHour[k].views = 2

RECURSIVE SumViews(_)
SumViews(buckets) ==
    IF Len(buckets) = 0 THEN 0
    ELSE buckets[1].views + SumViews(Tail(buckets))

\* C25: in a dashboard the 24 counts of trafficByHour add up to the number of
\* page views taken strictly after now minus 24 hours, and the 24 entries
\* carry 24 different hours of the day.
C25_TrafficSum ==
    (req.op = OP_DASHBOARD /\ res.status = 200) =>
        /\ SumViews(res.trafficByHour) = Cardinality(InLast24h)
        /\ Cardinality({res.trafficByHour[k].hour :
                           k \in 1..Len(res.trafficByHour)}) = 24

\* a dashboard read exactly 24 hours after the first page view and less
\* after the second: the counts add up to 1
C25_Witness ==
    /\ req.op = OP_DASHBOARD
    /\ res.status = 200
    /\ Len(analytics.pageViews) = 2
    /\ TakenAt(analytics.pageViews[1]) = now - 24 * 60 * 60 * 1000
    /\ TakenAt(analytics.pageViews[2]) > now - 24 * 60 * 60 * 1000
    /\ SumViews(res.trafficByHour) = 1

-----------------------------------------------------------------------------
(* Properties of the stored prices and of the choice of the key. *)

\* C22: every item of a created order stores as unit price the unitPrice of
\* the item sent whenever the item sent has one, 0 included, and its
\* unit_price only when it has no unitPrice.
C22_FirstPriceFieldWins ==
    (req.op = OP_PAYMENT /\ res.status = 200) =>
        LET stored == orders[Len(orders)].items
            sent == Val(req.body.items)
        IN  \A i \in 1..Len(sent) :
               stored[i].unitPrice =
                  (IF sent[i].unitPrice # {} THEN sent[i].unitPrice
                   ELSE sent[i].unit_price)

\* C23: requests are handled one at a time, each in one step; whatever the
\* order of creates, updates and removes, a step that appends an order
\* appends one order, and the key it carries is, in the registry the step
\* starts from, a registered key that is active: a key switched off or
\* removed by an earlier request is not given to an order until it is
\* switched on or registered again.
C23_AppendedKeyIsActive ==
    [][Len(orders') > Len(orders) =>
         /\ Len(orders') = Len(orders) + 1
         /\ SubSeq(orders', 1, Len(orders)) = orders
         /\ \E i \in 1..Len(pixKeys) :
               /\ pixKeys[i].active
               /\ orders'[Len(orders')].pixKey =
                     [id |-> pixKeys[i].id, key |-> pixKeys[i].key,
                      type |-> pixKeys[i].type, name |-> pixKeys[i].name]]_vars

\* an order was created after the seed key had been switched off and another
\* key registered: it carries the other key
C23_Witness ==
    /\ req.op = OP_PAYMENT
    /\ res.status = 200
    /\ Len(pixKeys) = 2
    /\ ~pixKeys[1].active
    /\ pixKeys[2].active
    /\ orders[Len(orders)].pixKey.id = pixKeys[2].id

-----------------------------------------------------------------------------
(* Invariants of the analytics object. *)

\* C24: every event that has statistics has as many views as there are
\* stored page views carrying its identifier, and no more distinct viewers
\* than views, after any mix of page views, clicks, checkouts, conversions
\* and resets.
C24_ViewsMatchPageViews ==
    \A e \in DOMAIN analytics.events :
        /\ analytics.events[e].views =
              Cardinality({j \in 1..Len(analytics.pageViews) :
                              analytics.pageViews[j].eventId = {e}})
        /\ Cardinality(analytics.events[e].uniqueViews) <= analytics.events[e].views

\* two page views of an event from one session beside a page view of no
\* event: two views, one viewer
C24_Witness ==
    /\ Len(analytics.pageViews) = 3
    /\ "E1" \in DOMAIN analytics.events
    /\ analytics.events["E1"].views = 2
    /\ Cardinality(analytics.events["E1"].uniqueViews) = 1

\* C26: every conversion record is started or completed; a step other than
\* a successful reset keeps every record in its place with its identifier,
\* keeps a completed record exactly as it is (status and orderId included,
\* also when the step is a conversion of the record's own session), and
\* lengthens the list by one record when it is a checkout and not at all
\* otherwise.
C26_CompletedIsFinal ==
    /\ [](\A i \in 1..Len(analytics.conversions) :
             analytics.conversions[i].status \in {"started", "completed"})
    /\ [][(req'.op = OP_RESET /\ res'.status = 200) \/
           LET before == analytics.conversions
               after == analytics'.conversions
           IN  /\ Len(after) = Len(before) + (IF req'.op = OP_CHECKOUT THEN 1 ELSE 0)
               /\ \A i \in 1..Len(before) :
                     /\ after[i].id = before[i].id
                     /\ before[i].status = "completed" => after[i] = before[i]]_vars

\* a second conversion of a session, with another order, found the session's
\* only record completed and left it with the first order
C26_Witness ==
    /\ req.op = OP_CONVERSION
    /\ Len(analytics.conversions) = 1
    /\ analytics.conversions[1].sessionId = req.body.sessionId
    /\ analytics.conversions[1].status = "completed"
    /\ analytics.conversions[1].orderId # req.body.orderId

\* C27 as claimed: for every event, the completed conversion records that
\* carry the event's identifier are no more than the conversion counter of
\* the event's statistics (none, when the event has no statistics).
C27_CompletedWithinCounter ==
    \A e \in {"E1"} \cup DOMAIN analytics.events :
        Cardinality({i \in 1..Len(analytics.conversions) :
                        /\ analytics.conversions[i].eventId = {e}
                        /\ analytics.conversions[i].status = "completed"})
           <= (IF e \in DOMAIN analytics.events
               THEN analytics.events[e].conversions ELSE 0)

\* C27 as amended: a started record becomes completed only in a conversion
\* request of the record's own session, and one request completes at most
\* one record.
C27_PromotedByOwnSession ==
    [][LET before == analytics.conversions
           after == analytics'.conversions
           promoted == {i \in 1..Len(before) :
                           /\ i <= Len(after)
                           /\ before[i].status = "started"
                           /\ after[i].status = "completed"}
       IN  /\ Cardinality(promoted) <= 1
           /\ \A i \in promoted :
                 /\ req'.op = OP_CONVERSION
                 /\ req'.body.sessionId = before[i].sessionId]_vars

\* a conversion that names no event completed the record of an event whose
\* conversion counter is 0
C27_Witness ==
    /\ req.op = OP_CONVERSION
    /\ req.body.eventId = {}
    /\ Len(analytics.conversions) = 2
    /\ analytics.conversions[1].eventId = {"E1"}
    /\ analytics.conversions[1].sessionId = req.body.sessionId
    /\ analytics.conversions[1].status = "completed"
    /\ analytics.conversions[2].status = "started"
    /\ analytics.events["E1"].conversions = 0

=============================================================================
